---- MODULE Spec2Model ----
(***************************************************************************)
(* A model of function_app.py: the Shopify -> Google Sheets pipeline.      *)
(*                                                                         *)
(* Python strings are sequences of tokens: a token is a word without the   *)
(* separator, a decimal digit, or the separator "_" itself, so that string *)
(* concatenation is \o and name[:-1] drops the last token.                 *)
(*                                                                         *)
(* A JSON value is a record [t, s, kids]:                                  *)
(*   t = "dict"  kids is the ordered sequence of [key, val] entries        *)
(*   t = "list"  kids is the sequence of [key |-> <<>>, val] elements      *)
(*   otherwise a scalar of kind t ("none", "nan", "str", "int", "bool")    *)
(*   whose text is s.                                                      *)
(* A flat record (a Python dict with string keys) is a function from keys  *)
(* to values.                                                             *)
(***************************************************************************)
EXTENDS Integers, Sequences, FiniteSets, TLC

VARIABLES
    \* flatten_data called on one record
    fy, fshop, fout, fpc,
    \* process_order_data called on one list of orders
    orders_in, oshop, oidx, processed_orders, opc,
    \* one run of http_trigger / process_stores
    credentials, pc, store, customers, orders, all_customers, all_orders, results,
    sheets, events, error, response,
    \* what the sources have answered so far: records, next pages, last status
    fetched, nexts, last_status

fvars == <<fy, fshop, fout, fpc>>
ovars == <<orders_in, oshop, oidx, processed_orders, opc>>
rvars ==
    <<credentials, pc, store, customers, orders, all_customers, all_orders, results,
      sheets, events, error, response, fetched, nexts, last_status>>
vars == <<fvars, ovars, rvars>>

----------------------------------------------------------------------------
(* Strings and JSON values *)

US == <<"_">>

Digit == <<"0", "1", "2", "3", "4", "5", "6", "7", "8", "9">>

RECURSIVE str(_)
\* Python's str(i) of a non-negative integer
str(i) == IF i < 10 THEN <<Digit[i + 1]>> ELSE str(i \div 10) \o <<Digit[(i % 10) + 1]>>

NoneV == [t |-> "none", s |-> <<>>, kids |-> <<>>]
NaN == [t |-> "nan", s |-> <<>>, kids |-> <<>>]
StrV(s) == [t |-> "str", s |-> s, kids |-> <<>>]
IntV(i) == [t |-> "int", s |-> str(i), kids |-> <<>>]
Entry(k, v) == [key |-> k, val |-> v]
Dict(entries) == [t |-> "dict", s |-> <<>>, kids |-> entries]
List(vals) == [t |-> "list", s |-> <<>>, kids |-> [i \in 1..Len(vals) |-> Entry(<<>>, vals[i])]]

IsScalar(x) == x.t \notin {"dict", "list"}

\* Python truthiness
Truthy(x) ==
    CASE x.t = "none" -> FALSE
      [] x.t = "dict" -> x.kids /= <<>>
      [] x.t = "list" -> x.kids /= <<>>
      [] x.t = "str" -> x.s /= <<>>
      [] x.t = "int" -> x.s /= <<"0">>
      [] x.t = "bool" -> x.s = <<"True">>
      [] OTHER -> TRUE

DictKeys(d) == {d.kids[i].key : i \in 1..Len(d.kids)}

\* d.get(k, default) on a JSON mapping
DictGet(d, k, default) ==
    IF k \in DictKeys(d)
    THEN (CHOOSE e \in {d.kids[i] : i \in 1..Len(d.kids)} : e.key = k).val
    ELSE default

\* out[k] = v on a flat record
Put(out, k, v) == (k :> v) @@ out

\* out.get(k)
Get(out, k) == IF k \in DOMAIN out THEN out[k] ELSE NoneV

\* {**a, **b} and a.update(b): the right operand wins
Update(a, b) == b @@ a

EmptyRec == [k \in {} |-> NoneV]

----------------------------------------------------------------------------
(* flatten_data *)

\* the key kept whole, trailing separator included
KeepLast(name) == name

\* name[:-1]
StripLast(name) == SubSeq(name, 1, Len(name) - 1)

\* the path segment the traversal appends for the i-th child of x
Segment(x, i) == IF x.t = "dict" THEN x.kids[i].key ELSE str(i - 1)

RECURSIVE flatten(_, _, _), flattenKids(_, _, _, _)
\* the inner function flatten(x, name) acting on the captured dictionary out
flatten(x, name, out) ==
    IF x.t \in {"dict", "list"}
    THEN flattenKids(x, name, out, 1)
    ELSE Put(out, StripLast(name), x)

flattenKids(x, name, out, i) ==
    IF i > Len(x.kids)
    THEN out
    ELSE LET written == flatten(x.kids[i].val, name \o Segment(x, i) \o US, out)
         IN  \* a child without leaves writes nothing
             IF written = out
             THEN flattenKids(x, name, out, i + 1)
             ELSE flattenKids(x, name, written, i + 1)

MetafieldRange == 100

MetaKeyName(i) == <<"metafields", "_", "edges", "_">> \o str(i) \o <<"_", "node", "_", "key">>
MetaValueName(i) == <<"metafields", "_", "edges", "_">> \o str(i) \o <<"_", "node", "_", "value">>

\* the pivot with the first index carrying a key-name winning over later ones
CollectMetafieldsFirstWins(out) ==
    LET fired == {key \in 0..(MetafieldRange - 1) : Truthy(Get(out, MetaKeyName(key)))}
        metafield_key(key) == Get(out, MetaKeyName(key)).s
        first(k) == CHOOSE key \in fired :
                        /\ metafield_key(key) = k
                        /\ \A other \in fired : metafield_key(other) = k => key <= other
    IN  [k \in {metafield_key(key) : key \in fired} |-> Get(out, MetaValueName(first(k)))]

\* the first loop over range(100): metafields[metafield_key] = metafield_value for
\* every index whose key-name field is truthy; a later index overwrites an earlier
\* one that carries the same key
CollectMetafields(out) ==
    LET fired == {key \in 0..(MetafieldRange - 1) : Truthy(Get(out, MetaKeyName(key)))}
        metafield_key(key) == Get(out, MetaKeyName(key)).s
        last(k) == CHOOSE key \in fired :
                       /\ metafield_key(key) = k
                       /\ \A later \in fired : metafield_key(later) = k => later <= key
    IN  [k \in {metafield_key(key) : key \in fired} |-> Get(out, MetaValueName(last(k)))]

SyntheticKeys ==
    {MetaKeyName(i) : i \in 0..(MetafieldRange - 1)}
        \cup {MetaValueName(i) : i \in 0..(MetafieldRange - 1)}

\* the second loop over range(100): out.pop(...) of both synthetic keys
PopSynthetic(out) == [k \in (DOMAIN out) \ SyntheticKeys |-> out[k]]

ShopNameKey == <<"shop", "_", "name">>

flatten_data(y, shop_name) ==
    LET out == flatten(y, <<>>, EmptyRec)
        metafields == CollectMetafields(out)
    IN  Put(PopSynthetic(Update(out, metafields)), ShopNameKey, StrV(shop_name))

----------------------------------------------------------------------------
(* process_order_data *)

LineItemsKey == <<"line", "_", "items">>
FulfillmentsKey == <<"fulfillments">>

ItemTypeKey == <<"item", "_", "type">>
ItemIdKey == <<"item", "_", "id">>
ItemTitleKey == <<"item", "_", "title">>
ItemQuantityKey == <<"item", "_", "quantity">>
ItemPriceKey == <<"item", "_", "price">>
FulfillmentIdKey == <<"fulfillment", "_", "id">>
FulfillmentStatusKey == <<"fulfillment", "_", "status">>

RowKeys ==
    {ItemTypeKey, ItemIdKey, ItemTitleKey, ItemQuantityKey, ItemPriceKey,
     FulfillmentIdKey, FulfillmentStatusKey}

\* the seven keys every dict literal of process_order_data writes after **order_data
RowFields(item_type, item_id, item_title, item_quantity, item_price, fulfillment_id, fulfillment_status) ==
    [k \in RowKeys |->
        CASE k = ItemTypeKey -> StrV(<<item_type>>)
          [] k = ItemIdKey -> item_id
          [] k = ItemTitleKey -> item_title
          [] k = ItemQuantityKey -> item_quantity
          [] k = ItemPriceKey -> item_price
          [] k = FulfillmentIdKey -> fulfillment_id
          [] k = FulfillmentStatusKey -> fulfillment_status]

\* {**order_data, 'item_type': ..., 'item_id': None, ...}
EmptyItemRow(order_data, item_type, fulfillment_id, fulfillment_status) ==
    Update(order_data,
           RowFields(item_type, NoneV, NoneV, NoneV, NoneV, fulfillment_id, fulfillment_status))

\* {**order_data, 'item_type': ..., 'item_id': item.get('id'), ...}
ItemRow(order_data, item_type, item, fulfillment_id, fulfillment_status) ==
    Update(order_data,
           RowFields(item_type,
                     DictGet(item, <<"id">>, NoneV),
                     DictGet(item, <<"title">>, NoneV),
                     DictGet(item, <<"quantity">>, NoneV),
                     DictGet(item, <<"price">>, NoneV),
                     fulfillment_id, fulfillment_status))

\* the expansion without the row that stands for an empty list
ItemRowsSkipEmpty(order_data, item_type, items, fulfillment_id, fulfillment_status) ==
    [i \in 1..Len(items.kids) |->
        ItemRow(order_data, item_type, items.kids[i].val, fulfillment_id, fulfillment_status)]

\* the rows appended for one list of line items: one row with empty item details
\* when the list is falsy, else one row per item
ItemRows(order_data, item_type, items, fulfillment_id, fulfillment_status) ==
    IF ~Truthy(items)
    THEN <<EmptyItemRow(order_data, item_type, fulfillment_id, fulfillment_status)>>
    ELSE [i \in 1..Len(items.kids) |->
             ItemRow(order_data, item_type, items.kids[i].val, fulfillment_id, fulfillment_status)]

\* order_data: the order without line_items and fulfillments, flattened
OrderData(order, shop_name) ==
    flatten_data(Dict(SelectSeq(order.kids,
                                LAMBDA e : e.key \notin {LineItemsKey, FulfillmentsKey})),
                 shop_name)

\* the rows appended for the order's own line items
OrderItemRows(order, shop_name) ==
    ItemRows(OrderData(order, shop_name), "order",
             DictGet(order, LineItemsKey, List(<<>>)), NoneV, NoneV)

\* a fulfillment's rows written without the fulfillment's own id and status
FulfillmentRowsNoContext(order, shop_name, fulfillment) ==
    ItemRows(OrderData(order, shop_name), "fulfillment",
             DictGet(fulfillment, LineItemsKey, List(<<>>)), NoneV, NoneV)

\* the rows appended for one fulfillment
FulfillmentRows(order, shop_name, fulfillment) ==
    ItemRows(OrderData(order, shop_name), "fulfillment",
             DictGet(fulfillment, LineItemsKey, List(<<>>)),
             DictGet(fulfillment, <<"id">>, NoneV),
             DictGet(fulfillment, <<"status">>, NoneV))

RECURSIVE AllFulfillmentRows(_, _, _, _)
\* the loop over order.get('fulfillments', []), from its i-th element on
AllFulfillmentRows(order, shop_name, fulfillments, i) ==
    IF i > Len(fulfillments.kids)
    THEN <<>>
    ELSE FulfillmentRows(order, shop_name, fulfillments.kids[i].val)
             \o AllFulfillmentRows(order, shop_name, fulfillments, i + 1)

\* one iteration of the loop over orders: the rows appended for this order
RowsOfOrder(order, shop_name) ==
    OrderItemRows(order, shop_name)
        \o AllFulfillmentRows(order, shop_name, DictGet(order, FulfillmentsKey, List(<<>>)), 1)

RECURSIVE process_order_data(_, _)
process_order_data(order_list, shop_name) ==
    IF order_list = <<>>
    THEN <<>>
    ELSE RowsOfOrder(Head(order_list), shop_name)
             \o process_order_data(Tail(order_list), shop_name)

----------------------------------------------------------------------------
(* What the stores return *)

MaxRecords == 3
MaxNextPages == 1

\* the mapping with these keys, each holding the same text
AllX(keys) == Dict([i \in 1..Len(keys) |-> Entry(keys[i], StrV(<<"x">>))])

AddressKeys ==
    <<<<"first", "_", "name">>, <<"last", "_", "name">>, <<"address1">>, <<"address2">>,
      <<"city">>, <<"province">>, <<"country">>, <<"zip">>, <<"phone">>, <<"company">>,
      <<"name">>, <<"country", "_", "code">>, <<"province", "_", "code">>,
      <<"latitude">>, <<"longitude">>>>

DefaultAddressKeys ==
    <<<<"id">>, <<"customer", "_", "id">>, <<"first", "_", "name">>, <<"last", "_", "name">>,
      <<"company">>, <<"address1">>, <<"address2">>, <<"city">>, <<"province">>,
      <<"country">>, <<"zip">>, <<"phone">>, <<"name">>, <<"province", "_", "code">>,
      <<"country", "_", "code">>, <<"country", "_", "name">>, <<"default">>>>

GidKey == <<"admin", "_", "graphql", "_", "api", "_", "id">>

\* an order as the REST API returns it, with every field the allow-list names;
\* it refers to the customer gid
FullOrder(id, gid) ==
    Dict(<<Entry(<<"id">>, IntV(id)),
           Entry(<<"cancel", "_", "reason">>, NoneV),
           Entry(<<"cancelled", "_", "at">>, NoneV),
           Entry(<<"estimated", "_", "taxes">>, StrV(<<"x">>)),
           Entry(<<"fulfillment", "_", "status">>, StrV(<<"fulfilled">>)),
           Entry(<<"updated", "_", "at">>, StrV(<<"x">>)),
           Entry(<<"shipping", "_", "address">>, AllX(AddressKeys)),
           Entry(<<"billing", "_", "address">>, AllX(AddressKeys)),
           Entry(<<"customer">>,
                 Dict(<<Entry(<<"id">>, IntV(5)),
                        Entry(GidKey, StrV(gid)),
                        Entry(<<"verified", "_", "email">>, StrV(<<"x">>)),
                        Entry(<<"email", "_", "marketing", "_", "consent">>, AllX(<<<<"state">>>>)),
                        Entry(<<"currency">>, StrV(<<"x">>)),
                        Entry(<<"default", "_", "address">>, AllX(DefaultAddressKeys))>>)),
           Entry(<<"refunds">>,
                 List(<<Dict(<<Entry(<<"transactions">>,
                                     List(<<AllX(<<<<"created", "_", "at">>>>)>>)),
                               Entry(<<"refund", "_", "line", "_", "items">>,
                                     List(<<Dict(<<Entry(<<"line", "_", "item">>,
                                                         AllX(<<<<"fulfillment", "_", "service">>>>))>>)>>))>>)>>)),
           Entry(LineItemsKey, List(<<AllX(<<<<"id">>, <<"title">>, <<"quantity">>, <<"price">>>>)>>)),
           Entry(FulfillmentsKey, List(<<>>))>>)

\* an order whose customer carries an id but no gid
OrderWithoutGid ==
    Dict(<<Entry(<<"id">>, IntV(2)), Entry(<<"customer">>, Dict(<<Entry(<<"id">>, IntV(5))>>))>>)

\* an order without a customer
OrderWithoutCustomer == Dict(<<Entry(<<"id">>, IntV(3)), Entry(<<"customer">>, NoneV)>>)

OrderRecords == {FullOrder(1, <<"c1">>), OrderWithoutGid, OrderWithoutCustomer}

MetaNode(key, value) == Dict(<<Entry(<<"key">>, StrV(key)), Entry(<<"value">>, StrV(value))>>)

\* a customer with the names and the metafields the allow-list names
FullCustomer(id) ==
    Dict(<<Entry(<<"id">>, StrV(id)),
           Entry(<<"email">>, StrV(<<"x">>)),
           Entry(<<"firstName">>, StrV(<<"x">>)),
           Entry(<<"lastName">>, StrV(<<"x">>)),
           Entry(<<"metafields">>,
                 Dict(<<Entry(<<"edges">>,
                              List(<<Dict(<<Entry(<<"node">>, MetaNode(<<"vat", "_", "number">>, <<"x">>))>>),
                                     Dict(<<Entry(<<"node">>, MetaNode(<<"shipping", "_", "address", "_", "id">>, <<"x">>))>>),
                                     Dict(<<Entry(<<"node">>, MetaNode(<<"billing", "_", "address", "_", "id">>, <<"x">>))>>),
                                     Dict(<<Entry(<<"node">>, MetaNode(<<"sales", "_", "manager">>, <<"x">>))>>)>>))>>))>>)

\* a customer without metafields
BareCustomer ==
    Dict(<<Entry(<<"id">>, StrV(<<"c2">>)),
           Entry(<<"email">>, StrV(<<"x">>)),
           Entry(<<"metafields">>, Dict(<<Entry(<<"edges">>, List(<<>>))>>))>>)

\* a customer node without an id
CustomerWithoutId == Dict(<<Entry(<<"email">>, StrV(<<"x">>))>>)

CustomerRecords == {FullCustomer(<<"c1">>), BareCustomer, CustomerWithoutId}

----------------------------------------------------------------------------
(* pandas tables: DataFrame, add_prefix, astype(str), merge, column selection *)

RECURSIVE ColumnsOf(_)
\* the union of the rows' keys
ColumnsOf(rows) == IF rows = <<>> THEN {} ELSE (DOMAIN Head(rows)) \cup ColumnsOf(Tail(rows))

\* pd.DataFrame(list of dicts): a key missing from a row is NaN
DataFrame(rows) ==
    LET cols == ColumnsOf(rows)
    IN  [cols |-> cols,
         rows |-> [i \in 1..Len(rows) |->
                      [c \in cols |-> IF c \in DOMAIN rows[i] THEN rows[i][c] ELSE NaN]]]

\* df.add_prefix(prefix)
AddPrefix(df, prefix) ==
    [cols |-> {prefix \o c : c \in df.cols},
     rows |-> [i \in 1..Len(df.rows) |->
                  [col \in {prefix \o c : c \in df.cols} |->
                      df.rows[i][SubSeq(col, Len(prefix) + 1, Len(col))]]]]

\* str(v) of a scalar, as astype(str) applies it
AsStr(v) ==
    CASE v.t = "none" -> StrV(<<"None">>)
      [] v.t = "nan" -> StrV(<<"nan">>)
      [] OTHER -> StrV(v.s)

\* df[col] = df[col].astype(str)
AsTypeStr(df, col) ==
    [cols |-> df.cols,
     rows |-> [i \in 1..Len(df.rows) |-> [df.rows[i] EXCEPT ![col] = AsStr(@)]]]

\* the rows one left row joins to: itself with each matching right row, in the
\* right table's order, or itself once with NaN in the right columns
JoinedRows(l, right, left_on, right_on) ==
    LET matches == SelectSeq(right.rows, LAMBDA r : r[right_on] = l[left_on])
    IN  IF matches = <<>>
        THEN <<Update(l, [c \in right.cols |-> NaN])>>
        ELSE [j \in 1..Len(matches) |-> Update(l, matches[j])]

RECURSIVE MergeRows(_, _, _, _, _)
MergeRows(left, right, left_on, right_on, i) ==
    IF i > Len(left.rows)
    THEN <<>>
    ELSE JoinedRows(left.rows[i], right, left_on, right_on)
             \o MergeRows(left, right, left_on, right_on, i + 1)

\* pd.merge(left, right, left_on=..., right_on=..., how='left')
MergeLeft(left, right, left_on, right_on) ==
    [cols |-> left.cols \cup right.cols,
     rows |-> MergeRows(left, right, left_on, right_on, 1)]

\* df.rename(columns={old: new}), for old a column of df
Rename(df, old, new) ==
    LET renamed(c) == IF c = old THEN new ELSE c
    IN  [cols |-> {renamed(c) : c \in df.cols},
         rows |-> [i \in 1..Len(df.rows) |->
                      [col \in {renamed(c) : c \in df.cols} |->
                          IF col = new THEN df.rows[i][old] ELSE df.rows[i][col]]]]

\* the table with every column kept
KeepAllColumns(df, columns) == df

\* df[columns], for columns all present
Select(df, columns) ==
    [cols |-> columns,
     rows |-> [i \in 1..Len(df.rows) |-> [c \in columns |-> df.rows[i][c]]]]

----------------------------------------------------------------------------
(* process_stores and http_trigger *)

Stores == <<"SHOPIFY_EU", "SHOPIFY_CZ", "SHOPIFY_CARPORT">>
TabCustomers == <<"Customer_EU", "Customer_CZ", "Customer_Carport">>
TabOrders == <<"Orders_EU", "Orders_CZ", "Orders_Carport">>

\* the SHOP_NAME the credentials give each store
ShopNameOf == <<<<"eu">>, <<"cz">>, <<"carport">>>>

IdKey == <<"id">>
CustomerIdKey == <<"customer", "_", "id">>
CustomersPrefix == <<"customers", "_">>
OrdersPrefix == <<"orders", "_">>
CustomersIdColumn == <<"customers", "_", "id">>
OrdersCustomerIdColumn == <<"orders", "_", "customer", "_", "id">>
OrdersCustomerGidColumn ==
    <<"orders", "_", "customer", "_", "admin", "_", "graphql", "_", "api", "_", "id">>

required_columns ==
    <<
      <<"orders", "_", "id">>,
      <<"orders", "_", "cancel", "_", "reason">>,
      <<"orders", "_", "cancelled", "_", "at">>,
      <<"orders", "_", "estimated", "_", "taxes">>,
      <<"orders", "_", "fulfillment", "_", "status">>,
      <<"orders", "_", "updated", "_", "at">>,
      <<"orders", "_", "item", "_", "type">>,
      <<"orders", "_", "item", "_", "id">>,
      <<"orders", "_", "item", "_", "title">>,
      <<"orders", "_", "item", "_", "quantity">>,
      <<"orders", "_", "item", "_", "price">>,
      <<"orders", "_", "shipping", "_", "address", "_", "first", "_", "name">>,
      <<"orders", "_", "shipping", "_", "address", "_", "last", "_", "name">>,
      <<"orders", "_", "shipping", "_", "address", "_", "address1">>,
      <<"orders", "_", "shipping", "_", "address", "_", "address2">>,
      <<"orders", "_", "shipping", "_", "address", "_", "city">>,
      <<"orders", "_", "shipping", "_", "address", "_", "province">>,
      <<"orders", "_", "shipping", "_", "address", "_", "country">>,
      <<"orders", "_", "shipping", "_", "address", "_", "zip">>,
      <<"orders", "_", "shipping", "_", "address", "_", "phone">>,
      <<"orders", "_", "shipping", "_", "address", "_", "company">>,
      <<"orders", "_", "shipping", "_", "address", "_", "name">>,
      <<"orders", "_", "shipping", "_", "address", "_", "country", "_", "code">>,
      <<"orders", "_", "shipping", "_", "address", "_", "province", "_", "code">>,
      <<"orders", "_", "shipping", "_", "address", "_", "latitude">>,
      <<"orders", "_", "shipping", "_", "address", "_", "longitude">>,
      <<"orders", "_", "billing", "_", "address", "_", "first", "_", "name">>,
      <<"orders", "_", "billing", "_", "address", "_", "last", "_", "name">>,
      <<"orders", "_", "billing", "_", "address", "_", "address1">>,
      <<"orders", "_", "billing", "_", "address", "_", "address2">>,
      <<"orders", "_", "billing", "_", "address", "_", "city">>,
      <<"orders", "_", "billing", "_", "address", "_", "province">>,
      <<"orders", "_", "billing", "_", "address", "_", "country">>,
      <<"orders", "_", "billing", "_", "address", "_", "zip">>,
      <<"orders", "_", "billing", "_", "address", "_", "phone">>,
      <<"orders", "_", "billing", "_", "address", "_", "company">>,
      <<"orders", "_", "billing", "_", "address", "_", "name">>,
      <<"orders", "_", "billing", "_", "address", "_", "country", "_", "code">>,
      <<"orders", "_", "billing", "_", "address", "_", "province", "_", "code">>,
      <<"orders", "_", "billing", "_", "address", "_", "latitude">>,
      <<"orders", "_", "billing", "_", "address", "_", "longitude">>,
      <<"orders", "_", "customer", "_", "default", "_", "address", "_", "id">>,
      <<"orders", "_", "customer", "_", "default", "_", "address", "_", "customer", "_", "id">>,
      <<"orders", "_", "customer", "_", "default", "_", "address", "_", "first", "_", "name">>,
      <<"orders", "_", "customer", "_", "default", "_", "address", "_", "last", "_", "name">>,
      <<"orders", "_", "customer", "_", "default", "_", "address", "_", "company">>,
      <<"orders", "_", "customer", "_", "default", "_", "address", "_", "address1">>,
      <<"orders", "_", "customer", "_", "default", "_", "address", "_", "address2">>,
      <<"orders", "_", "customer", "_", "default", "_", "address", "_", "city">>,
      <<"orders", "_", "customer", "_", "default", "_", "address", "_", "province">>,
      <<"orders", "_", "customer", "_", "default", "_", "address", "_", "country">>,
      <<"orders", "_", "customer", "_", "default", "_", "address", "_", "zip">>,
      <<"orders", "_", "customer", "_", "default", "_", "address", "_", "phone">>,
      <<"orders", "_", "customer", "_", "default", "_", "address", "_", "name">>,
      <<"orders", "_", "customer", "_", "default", "_", "address", "_", "province", "_", "code">>,
      <<"orders", "_", "customer", "_", "default", "_", "address", "_", "country", "_", "code">>,
      <<"orders", "_", "customer", "_", "default", "_", "address", "_", "country", "_", "name">>,
      <<"orders", "_", "customer", "_", "default", "_", "address", "_", "default">>,
      <<"orders", "_", "refunds", "_", "0", "_", "transactions", "_", "0", "_", "created", "_", "at">>,
      <<"orders", "_", "refunds", "_", "0", "_", "refund", "_", "line", "_", "items", "_", "0", "_", "line", "_", "item", "_", "fulfillment", "_", "service">>,
      <<"customers", "_", "email">>,
      <<"customers", "_", "firstName">>,
      <<"customers", "_", "lastName">>,
      <<"customers", "_", "shop", "_", "name">>,
      <<"customers", "_", "vat", "_", "number">>,
      <<"customers", "_", "shipping", "_", "address", "_", "id">>,
      <<"customers", "_", "billing", "_", "address", "_", "id">>,
      <<"customers", "_", "sales", "_", "manager">>,
      <<"orders", "_", "shop", "_", "name">>,
      <<"orders", "_", "customer", "_", "verified", "_", "email">>,
      <<"orders", "_", "customer", "_", "email", "_", "marketing", "_", "consent", "_", "state">>,
      <<"orders", "_", "customer", "_", "currency">>
    >>

RequiredColumnSet == {required_columns[i] : i \in 1..Len(required_columns)}

\* what one upload_to_google_sheets call can do: replace the tab, raise before
\* sheet.clear(), or raise after it
UploadOutcomes == {"ok", "fail", "fail_cleared"}

TableSummary(df) == [cols |-> df.cols, nrows |-> Len(df.rows)]
ClearedTable == [cols |-> {}, nrows |-> 0]

\* the spreadsheet after an upload of df to tab with this outcome
Uploaded(sh, tab, df, outcome) ==
    CASE outcome = "ok" -> [t \in (DOMAIN sh) \cup {tab} |-> IF t = tab THEN TableSummary(df) ELSE sh[t]]
      [] outcome = "fail_cleared" -> [t \in (DOMAIN sh) \cup {tab} |-> IF t = tab THEN ClearedTable ELSE sh[t]]
      [] OTHER -> sh

UploadEvent(tab, outcome) == IF outcome = "ok" THEN <<"upload", tab>> ELSE <<"upload_failed", tab>>

\* an exception propagates out of process_stores (lines 457-459)
Raise(e) ==
    /\ pc' = "raised"
    /\ error' = e

\* the one status the fetch loops take for success
StatusOk == 200

\* the statuses a source answers with other than success: an error status, for
\* which raise_for_status() raises, and a status below 400, for which it returns
OtherStatuses == {429, 202}

\* the responses a source may give to the next request: a page of at most one
\* record with or without a next page, a non-200 status that raise_for_status()
\* lets pass, or an error status
Responses(records) ==
    {[status |-> StatusOk, records |-> rs, next |-> n] :
        rs \in {<<>>} \cup {<<r>> : r \in {x \in records : fetched < MaxRecords}},
        n \in {FALSE} \cup {b \in {TRUE} : nexts < MaxNextPages}}
      \cup {[status |-> st, records |-> <<>>, next |-> FALSE] :
              st \in OtherStatuses}

\* the rows put in front of the accumulated ones
ExtendFront(acc, rows) == rows \o acc

\* all_customers.extend(rows) and all_orders.extend(rows)
Extend(acc, rows) == acc \o rows

\* lines 267-274 and 320-322: the head of the loop over stores
NextStore ==
    /\ pc = "loop_stores"
    /\ IF store > Len(Stores)
       THEN /\ pc' = "reconcile"
            /\ UNCHANGED <<store, results, customers, events>>
       ELSE IF credentials[store]
       THEN /\ pc' = "fetch_customers"
            /\ customers' = <<>>
            /\ events' = Append(events, <<"fetch_customers", Stores[store]>>)
            /\ UNCHANGED <<store, results>>
       ELSE /\ results' = Append(results, <<"missing_credentials", Stores[store]>>)
            /\ store' = store + 1
            /\ UNCHANGED <<pc, customers, events>>
    /\ UNCHANGED <<credentials, orders, all_customers, all_orders, sheets, error,
                   response, fetched, nexts, last_status, fvars, ovars>>

\* lines 162-184: one request of fetch_all_customers_from_shopify
RequestCustomers ==
    /\ pc = "fetch_customers"
    /\ \E resp \in Responses(CustomerRecords) :
           /\ last_status' = resp.status
           /\ IF resp.status = StatusOk
              THEN /\ customers' = customers \o resp.records
                   /\ fetched' = fetched + Len(resp.records)
                   /\ nexts' = nexts + (IF resp.next THEN 1 ELSE 0)
                   /\ IF resp.next
                      THEN UNCHANGED <<pc, orders, events>>
                      ELSE /\ pc' = "fetch_orders"
                           /\ orders' = <<>>
                           /\ events' = Append(events, <<"fetch_orders", Stores[store]>>)
                   /\ UNCHANGED error
              ELSE IF resp.status >= 400
              THEN /\ Raise("HTTPError")
                   /\ UNCHANGED <<customers, orders, fetched, nexts, events>>
              ELSE \* raise_for_status() returns and the while loop runs again
                   UNCHANGED <<customers, orders, fetched, nexts, events, pc, error>>
    /\ UNCHANGED <<credentials, store, all_customers, all_orders, results, sheets, response,
                   fvars, ovars>>

\* lines 192-221: one request of fetch_all_orders_from_shopify
RequestOrders ==
    /\ pc = "fetch_orders"
    /\ \E resp \in Responses(OrderRecords) :
           /\ last_status' = resp.status
           /\ IF resp.status = StatusOk
              THEN /\ orders' = orders \o resp.records
                   /\ fetched' = fetched + Len(resp.records)
                   /\ nexts' = nexts + (IF resp.next THEN 1 ELSE 0)
                   /\ pc' = IF resp.next THEN "fetch_orders" ELSE "process_customers"
                   /\ UNCHANGED error
              ELSE IF resp.status >= 400
              THEN /\ Raise("HTTPError")
                   /\ UNCHANGED <<orders, fetched, nexts>>
              ELSE \* raise_for_status() returns and the while True loop runs again
                   UNCHANGED <<orders, fetched, nexts, pc, error>>
    /\ UNCHANGED <<credentials, store, customers, all_customers, all_orders, results, sheets,
                   events, response, fvars, ovars>>

\* lines 283-300: flatten, check, publish and accumulate the store's customers
ProcessCustomers ==
    /\ pc = "process_customers"
    /\ IF customers = <<>>
       THEN /\ results' = Append(results, <<"no_customer_data", Stores[store]>>)
            /\ pc' = "process_orders"
            /\ UNCHANGED <<all_customers, sheets, events, error>>
       ELSE LET flattened_customers ==
                    [i \in 1..Len(customers) |-> flatten_data(customers[i], ShopNameOf[store])]
                df_customers == DataFrame(flattened_customers)
            IN  IF IdKey \notin df_customers.cols
                THEN /\ Raise("KeyError: 'id' column is missing in customer data")
                     /\ UNCHANGED <<all_customers, sheets, events, results>>
                ELSE \E outcome \in UploadOutcomes :
                        /\ sheets' = Uploaded(sheets, TabCustomers[store],
                                              Rename(df_customers, IdKey, CustomersIdColumn),
                                              outcome)
                        /\ IF outcome = "ok"
                           THEN /\ events' = events \o <<<<"upload", TabCustomers[store]>>,
                                                        <<"append_customers", Stores[store]>>>>
                                /\ all_customers' = Extend(all_customers, flattened_customers)
                                /\ results' = Append(results, <<"saved", TabCustomers[store]>>)
                                /\ pc' = "process_orders"
                                /\ UNCHANGED error
                           ELSE /\ events' = Append(events, <<"upload_failed", TabCustomers[store]>>)
                                /\ Raise("APIError")
                                /\ UNCHANGED <<all_customers, results>>
    /\ UNCHANGED <<credentials, store, customers, orders, all_orders, response, fetched, nexts,
                   last_status, fvars, ovars>>

\* lines 302-319: expand, check, publish and accumulate the store's orders
ProcessOrders ==
    /\ pc = "process_orders"
    /\ IF orders = <<>>
       THEN /\ results' = Append(results, <<"no_orders_data", Stores[store]>>)
            /\ pc' = "loop_stores"
            /\ store' = store + 1
            /\ UNCHANGED <<all_orders, sheets, events, error>>
       ELSE LET rows == process_order_data(orders, ShopNameOf[store])
                df_orders == DataFrame(rows)
            IN  IF CustomerIdKey \notin df_orders.cols
                THEN /\ Raise("KeyError: 'customer_id' column is missing in orders data")
                     /\ UNCHANGED <<all_orders, sheets, events, results, store>>
                ELSE \E outcome \in UploadOutcomes :
                        /\ sheets' = Uploaded(sheets, TabOrders[store],
                                              Rename(df_orders, CustomerIdKey, OrdersCustomerIdColumn),
                                              outcome)
                        /\ IF outcome = "ok"
                           THEN /\ events' = events \o <<<<"upload", TabOrders[store]>>,
                                                        <<"append_orders", Stores[store]>>>>
                                /\ all_orders' = Extend(all_orders, rows)
                                /\ results' = Append(results, <<"saved", TabOrders[store]>>)
                                /\ pc' = "loop_stores"
                                /\ store' = store + 1
                                /\ UNCHANGED error
                           ELSE /\ events' = Append(events, <<"upload_failed", TabOrders[store]>>)
                                /\ Raise("APIError")
                                /\ UNCHANGED <<all_orders, results, store>>
    /\ UNCHANGED <<credentials, customers, orders, all_customers, response, fetched, nexts,
                   last_status, fvars, ovars>>

\* line 326
df_all_customers == AddPrefix(DataFrame(all_customers), CustomersPrefix)

\* line 329
df_all_orders == AddPrefix(DataFrame(all_orders), OrdersPrefix)

\* lines 338-342: the key columns coerced to str, then the left join
df_merged ==
    MergeLeft(AsTypeStr(df_all_orders, OrdersCustomerGidColumn),
              AsTypeStr(df_all_customers, CustomersIdColumn),
              OrdersCustomerGidColumn, CustomersIdColumn)

\* line 437
df_combined == Select(df_merged, RequiredColumnSet)

\* lines 324-444: build the accumulated tables, join them and publish the join
Reconcile ==
    /\ pc = "reconcile"
    /\ IF all_customers = <<>>
       THEN \* line 332 reads df_all_customers, which line 326 never assigned
            /\ Raise("UnboundLocalError: df_all_customers")
            /\ UNCHANGED <<sheets, events, results>>
       ELSE IF all_orders = <<>>
       THEN \* line 333 reads df_all_orders, which line 329 never assigned
            /\ Raise("UnboundLocalError: df_all_orders")
            /\ UNCHANGED <<sheets, events, results>>
       ELSE IF ~(/\ CustomersIdColumn \in df_all_customers.cols
                 /\ OrdersCustomerGidColumn \in df_all_orders.cols)
       THEN /\ Raise("KeyError: One or both of the required columns are missing for merging")
            /\ UNCHANGED <<sheets, events, results>>
       ELSE IF ~(RequiredColumnSet \subseteq df_merged.cols)
       THEN /\ Raise("KeyError: not in index")
            /\ UNCHANGED <<sheets, events, results>>
       ELSE \E outcome \in UploadOutcomes :
               /\ sheets' = Uploaded(sheets, "Combined_Customers_Orders", df_combined, outcome)
               /\ events' = Append(events, UploadEvent("Combined_Customers_Orders", outcome))
               /\ IF outcome = "ok"
                  THEN /\ results' = Append(results, <<"saved", "Combined_Customers_Orders">>)
                       /\ pc' = "upload_customers_all"
                       /\ UNCHANGED error
                  ELSE /\ Raise("APIError")
                       /\ UNCHANGED results
    /\ UNCHANGED <<credentials, store, customers, orders, all_customers, all_orders, response,
                   fetched, nexts, last_status, fvars, ovars>>

\* lines 447-449
UploadCustomersAll ==
    /\ pc = "upload_customers_all"
    /\ IF all_customers = <<>>
       THEN /\ pc' = "upload_orders_all"
            /\ UNCHANGED <<sheets, events, results, error>>
       ELSE \E outcome \in UploadOutcomes :
               /\ sheets' = Uploaded(sheets, "Customers_all", df_all_customers, outcome)
               /\ events' = Append(events, UploadEvent("Customers_all", outcome))
               /\ IF outcome = "ok"
                  THEN /\ results' = Append(results, <<"saved", "Customers_all">>)
                       /\ pc' = "upload_orders_all"
                       /\ UNCHANGED error
                  ELSE /\ Raise("APIError")
                       /\ UNCHANGED results
    /\ UNCHANGED <<credentials, store, customers, orders, all_customers, all_orders, response,
                   fetched, nexts, last_status, fvars, ovars>>

\* lines 451-456: the last upload, then the summary is returned
UploadOrdersAll ==
    /\ pc = "upload_orders_all"
    /\ IF all_orders = <<>>
       THEN /\ pc' = "returned"
            /\ UNCHANGED <<sheets, events, results, error>>
       ELSE \E outcome \in UploadOutcomes :
               /\ sheets' = Uploaded(sheets, "Orders_all", df_all_orders, outcome)
               /\ events' = Append(events, UploadEvent("Orders_all", outcome))
               /\ IF outcome = "ok"
                  THEN /\ results' = Append(results, <<"saved", "Orders_all">>)
                       /\ pc' = "returned"
                       /\ UNCHANGED error
                  ELSE /\ Raise("APIError")
                       /\ UNCHANGED results
    /\ UNCHANGED <<credentials, store, customers, orders, all_customers, all_orders, response,
                   fetched, nexts, last_status, fvars, ovars>>

\* lines 469-474: http_trigger answers 200 with the summary, or 500 with str(e)
HttpRespond ==
    /\ pc \in {"returned", "raised"}
    /\ response' = IF pc = "returned"
                   THEN [status |-> 200, error |-> "none"]
                   ELSE [status |-> 500, error |-> error]
    /\ pc' = "responded"
    /\ UNCHANGED <<credentials, store, customers, orders, all_customers, all_orders, results,
                   sheets, events, error, fetched, nexts, last_status, fvars, ovars>>

NoResponse == [status |-> 0, error |-> "none"]

RInit ==
    /\ credentials \in [1..Len(Stores) -> BOOLEAN]
    /\ pc = "loop_stores"
    /\ store = 1
    /\ customers = <<>>
    /\ orders = <<>>
    /\ all_customers = <<>>
    /\ all_orders = <<>>
    /\ results = <<>>
    /\ sheets = [t \in {} |-> ClearedTable]
    /\ events = <<>>
    /\ error = "none"
    /\ response = NoResponse
    /\ fetched = 0
    /\ nexts = 0
    /\ last_status = 0

RIdle ==
    /\ credentials = [i \in 1..Len(Stores) |-> FALSE]
    /\ pc = "idle"
    /\ store = 1
    /\ customers = <<>>
    /\ orders = <<>>
    /\ all_customers = <<>>
    /\ all_orders = <<>>
    /\ results = <<>>
    /\ sheets = [t \in {} |-> ClearedTable]
    /\ events = <<>>
    /\ error = "none"
    /\ response = NoResponse
    /\ fetched = 0
    /\ nexts = 0
    /\ last_status = 0

----------------------------------------------------------------------------
(* Records handed to flatten_data *)

MaxWidth == 2
MaxInner == 1
MaxEdges == 2

RECURSIVE DistinctSeqs(_, _)
\* the sequences of at most n distinct elements of S
DistinctSeqs(S, n) ==
    IF n = 0
    THEN {<<>>}
    ELSE LET shorter == DistinctSeqs(S, n - 1)
             longer == {Append(q, x) : q \in shorter, x \in S}
         IN  shorter \cup {q \in longer : \A i, j \in 1..Len(q) : i /= j => q[i] /= q[j]}

SeqsUpTo(S, n) == UNION {[1..m -> S] : m \in 0..n}

\* the mapping with keys ks, in this order, and values vs
DictOf(ks, vs) == Dict([i \in 1..Len(ks) |-> Entry(ks[i], vs[i])])

\* the mappings with at most n entries, keys from K in any order, values from V
DictsOver(K, V, n) ==
    UNION {{DictOf(ks, vs) : vs \in [1..Len(ks) -> V]} : ks \in DistinctSeqs(K, n)}

RootKeys == {<<"a">>, <<"a", "_", "b">>, <<"shop">>}
InnerKeys == {<<"b">>, <<"name">>}
LeafValues == {IntV(1), NoneV}

InnerValues ==
    LeafValues
        \cup DictsOver(InnerKeys, LeafValues, MaxInner)
        \cup {List(vs) : vs \in SeqsUpTo(LeafValues, MaxInner)}

\* nested records without metafields: at most MaxWidth entries at the root
IsPlainRecord(y) ==
    \E ks \in DistinctSeqs(RootKeys, MaxWidth) :
        \E vs \in [1..Len(ks) -> InnerValues] : y = DictOf(ks, vs)

MetaKeyValues ==
    {StrV(<<"vat">>), StrV(<<"tier">>), StrV(<<>>), NoneV, StrV(ShopNameKey), StrV(MetaValueName(0))}
MetaValueValues == {StrV(<<"X1">>), StrV(<<"gold">>)}

MetaNodes ==
    {Dict(<<Entry(<<"key">>, k), Entry(<<"value">>, v)>>) : k \in MetaKeyValues, v \in MetaValueValues}
        \cup {Dict(<<Entry(<<"value">>, v)>>) : v \in MetaValueValues}

\* a customer node as the GraphQL query returns it: id and metafields { edges { node } }
Customer(id, nodes) ==
    Dict(<<Entry(<<"id">>, id),
           Entry(<<"metafields">>,
                 Dict(<<Entry(<<"edges">>,
                              List([i \in 1..Len(nodes) |-> Dict(<<Entry(<<"node">>, nodes[i])>>)]))>>))>>)

\* customers with at most MaxEdges metafield edges
IsMetafieldRecord(y) ==
    \E m \in 0..MaxEdges :
        \E ns \in [1..m -> MetaNodes] : y = Customer(StrV(<<"c1">>), ns)

ShopNames == {<<"eu">>}

----------------------------------------------------------------------------
(* flatten_data as a one-call state machine *)

FInit == (IsPlainRecord(fy) \/ IsMetafieldRecord(fy)) /\ fshop \in ShopNames /\ fout = EmptyRec /\ fpc = "call"
FIdle == fy = Dict(<<>>) /\ fshop = <<>> /\ fout = EmptyRec /\ fpc = "idle"

OIdle == orders_in = <<>> /\ oshop = <<>> /\ oidx = 0 /\ processed_orders = <<>> /\ opc = "idle"

CallFlatten ==
    /\ fpc = "call"
    /\ fout' = flatten_data(fy, fshop)
    /\ fpc' = "done"
    /\ UNCHANGED <<fy, fshop, ovars, rvars>>

InitFlatten == FInit /\ OIdle /\ RIdle
NextFlatten == CallFlatten
SpecFlatten == InitFlatten /\ [][NextFlatten]_vars

----------------------------------------------------------------------------
(* Properties of flatten_data *)

RECURSIVE LeafSet(_, _)
\* the leaves of x, each with the keys and zero-based indices that lead to it
LeafSet(x, path) ==
    IF IsScalar(x)
    THEN {[path |-> path, val |-> x]}
    ELSE UNION {LeafSet(x.kids[i].val,
                        Append(path, IF x.t = "dict" THEN x.kids[i].key ELSE str(i - 1))) :
                    i \in 1..Len(x.kids)}

Leaves(y) == LeafSet(y, <<>>)

RECURSIVE JoinPath(_)
\* '_'.join(path)
JoinPath(path) ==
    IF Len(path) = 1 THEN path[1] ELSE path[1] \o US \o JoinPath(Tail(path))

LeafKeys(y) == {JoinPath(l.path) : l \in Leaves(y)}

NoMetafieldStructure(y) == LeafKeys(y) \cap SyntheticKeys = {}

RECURSIVE SeparatorFree(_)
\* no mapping key of x contains the separator
SeparatorFree(x) ==
    \A i \in 1..Len(x.kids) :
        /\ x.t = "dict" => \A j \in 1..Len(x.kids[i].key) : x.kids[i].key[j] /= "_"
        /\ SeparatorFree(x.kids[i].val)

Flattened(y) == flatten(y, <<>>, EmptyRec)

\* the indices of the range whose key-name field is present in the flattened record
KeyedIndices(pre) == {i \in 0..(MetafieldRange - 1) : MetaKeyName(i) \in DOMAIN pre}

NoSyntheticLeft(out) == DOMAIN out \cap SyntheticKeys = {}

\* C8 as claimed: every index whose flattened key-name field is present and
\* non-null yields a top-level field named by the key-name's value and holding that
\* index's value field; neither synthetic field of any index remains.
C8_PivotAsClaimed ==
    fpc = "done" =>
        LET pre == Flattened(fy)
        IN  /\ \A i \in KeyedIndices(pre) :
                   pre[MetaKeyName(i)].t /= "none" =>
                       /\ pre[MetaKeyName(i)].s \in DOMAIN fout
                       /\ fout[pre[MetaKeyName(i)].s] = Get(pre, MetaValueName(i))
            /\ NoSyntheticLeft(fout)

\* C8 amended: every index whose key-name field is truthy (present, non-null and
\* non-empty) yields a top-level field named by the key-name's value and holding the
\* value field of the last index that carries the same key-name, unless the
\* key-name is shop_name (the store tag replaces it) or a synthetic name (removed);
\* neither synthetic field of any index remains.
C8_PivotLastWins ==
    fpc = "done" =>
        LET pre == Flattened(fy)
            fired == {i \in KeyedIndices(pre) : Truthy(pre[MetaKeyName(i)])}
        IN  /\ \A i \in fired :
                   pre[MetaKeyName(i)].s \notin SyntheticKeys \cup {ShopNameKey} =>
                       /\ pre[MetaKeyName(i)].s \in DOMAIN fout
                       /\ \E j \in fired :
                              /\ pre[MetaKeyName(j)] = pre[MetaKeyName(i)]
                              /\ \A k \in fired : pre[MetaKeyName(k)] = pre[MetaKeyName(i)] => k <= j
                              /\ fout[pre[MetaKeyName(i)].s] = Get(pre, MetaValueName(j))
            /\ NoSyntheticLeft(fout)

\* two indices carrying the same key-name with different values have been pivoted
C8_Witness ==
    /\ fpc = "done"
    /\ LET pre == Flattened(fy)
       IN  /\ {0, 1} \subseteq KeyedIndices(pre)
           /\ pre[MetaKeyName(0)] = StrV(<<"vat">>)
           /\ pre[MetaKeyName(1)] = StrV(<<"vat">>)
           /\ Get(pre, MetaValueName(0)) /= Get(pre, MetaValueName(1))
           /\ fout[<<"vat">>] = Get(pre, MetaValueName(1))

----------------------------------------------------------------------------
(* Orders handed to process_order_data *)

MaxItems == 2
MaxFulfillments == 2
MaxOrders == 2

\* the j-th line item; every second one lacks title and price
LineItem(j) ==
    IF j % 2 = 1
    THEN Dict(<<Entry(<<"id">>, IntV(j)), Entry(<<"title">>, StrV(<<"t", str(j)[1]>>)),
                Entry(<<"quantity">>, IntV(j)), Entry(<<"price">>, StrV(<<"p", str(j)[1]>>))>>)
    ELSE Dict(<<Entry(<<"id">>, IntV(j)), Entry(<<"quantity">>, IntV(j))>>)

LineItemLists == {List([j \in 1..n |-> LineItem(j)]) : n \in 0..MaxItems}

\* the entries a record may carry under line_items: none, or a list
LineItemEntries == {<<>>} \cup {<<Entry(LineItemsKey, l)>> : l \in LineItemLists}

FulfillmentInputs ==
    {Dict(<<>>)}
        \cup {Dict(<<Entry(<<"id">>, IntV(7)), Entry(<<"status">>, StrV(<<"success">>))>> \o li) :
                 li \in LineItemEntries \ {<<>>}}

\* order-level fields: some named like the fields the expansion writes
OrderBases ==
    {<<Entry(<<"id">>, IntV(1))>>,
     <<Entry(<<"id">>, IntV(2)), Entry(FulfillmentStatusKey, StrV(<<"fulfilled">>)),
       Entry(<<"customer">>, Dict(<<Entry(<<"id">>, IntV(5))>>))>>,
     <<Entry(<<"id">>, IntV(3)), Entry(ItemIdKey, IntV(9)), Entry(FulfillmentStatusKey, NoneV)>>}

\* an order with neither line items nor fulfillments
PlainOrders == {Dict(<<Entry(<<"id">>, IntV(4))>>)}

\* lists of at most MaxOrders orders: plain orders around one order drawn from
\* OrderBases, the line-item lists, and no fulfillments entry or a list of at most
\* MaxFulfillments fulfillments
IsOrderList(l) ==
    \/ l = <<>>
    \/ \E n \in 0..(MaxOrders - 1) :
           \E m \in 0..(MaxOrders - 1 - n) :
               \E pre \in [1..n -> PlainOrders], post \in [1..m -> PlainOrders] :
                   \E o \in {Dict(b \o li) : b \in OrderBases, li \in LineItemEntries} :
                       \/ l = pre \o <<o>> \o post
                       \/ \E k \in 0..MaxFulfillments :
                              \E fs \in [1..k -> FulfillmentInputs] :
                                  l = pre \o <<Dict(o.kids \o <<Entry(FulfillmentsKey, List(fs))>>)>> \o post

----------------------------------------------------------------------------
(* process_order_data as a state machine: one step per order *)

OInit == IsOrderList(orders_in) /\ oshop \in ShopNames /\ oidx = 0 /\ processed_orders = <<>> /\ opc = "loop"

\* lines 56-118: one iteration of `for order in orders`
ProcessOrder ==
    /\ opc = "loop"
    /\ oidx < Len(orders_in)
    /\ processed_orders' = processed_orders \o RowsOfOrder(orders_in[oidx + 1], oshop)
    /\ oidx' = oidx + 1
    /\ UNCHANGED <<orders_in, oshop, opc, fvars, rvars>>

\* line 120
ReturnOrders ==
    /\ opc = "loop"
    /\ oidx = Len(orders_in)
    /\ opc' = "done"
    /\ UNCHANGED <<orders_in, oshop, oidx, processed_orders, fvars, rvars>>

InitOrders == OInit /\ FIdle /\ RIdle
NextOrders == ProcessOrder \/ ReturnOrders
SpecOrders == InitOrders /\ [][NextOrders]_vars

----------------------------------------------------------------------------
(* Properties of process_order_data *)

Max(a, b) == IF a >= b THEN a ELSE b

\* the line items of an order or of a fulfillment
ItemsOf(x) == DictGet(x, LineItemsKey, List(<<>>)).kids

FulfillmentsOf(order) == DictGet(order, FulfillmentsKey, List(<<>>)).kids

RECURSIVE FulfillmentRowCount(_, _)
\* the rows due to the first m fulfillments of an order
FulfillmentRowCount(order, m) ==
    IF m = 0
    THEN 0
    ELSE FulfillmentRowCount(order, m - 1) + Max(Len(ItemsOf(FulfillmentsOf(order)[m].val)), 1)

\* max(N,1) + sum over each fulfillment of max(number of its line items, 1)
ExpectedRows(order) ==
    Max(Len(ItemsOf(order)), 1) + FulfillmentRowCount(order, Len(FulfillmentsOf(order)))

RECURSIVE ExpectedTotal(_, _)
\* the rows due to the first n orders of a list
ExpectedTotal(order_list, n) ==
    IF n = 0 THEN 0 ELSE ExpectedTotal(order_list, n - 1) + ExpectedRows(order_list[n])

\* C1: after each order the output holds exactly the sum, over the orders
\* processed so far, of max(N,1) + sum over fulfillments of max(items,1) rows.
C1_RowCountLaw == Len(processed_orders) = ExpectedTotal(orders_in, oidx)

\* a list of two orders has been expanded, one of them with two line items and two
\* fulfillments, one fulfillment with two line items and one with none
C1_Witness ==
    /\ opc = "done"
    /\ Len(orders_in) = 2
    /\ \E i \in 1..2 :
           /\ Len(ItemsOf(orders_in[i])) = 2
           /\ Len(FulfillmentsOf(orders_in[i])) = 2
           /\ Len(ItemsOf(FulfillmentsOf(orders_in[i])[1].val)) = 2
           /\ Len(ItemsOf(FulfillmentsOf(orders_in[i])[2].val)) = 0
           /\ ExpectedRows(orders_in[i]) = 5
    /\ Len(processed_orders) > 5

\* the k-th row emitted for the n-th order
RowOf(n, k) == processed_orders[ExpectedTotal(orders_in, n - 1) + k]

\* the flattened order without line_items and fulfillments
BaseFields(order) ==
    flatten_data(Dict(SelectSeq(order.kids,
                                LAMBDA e : e.key \notin {LineItemsKey, FulfillmentsKey})),
                 oshop)

\* C6 as claimed: every row emitted for an order carries, under every key of the
\* order's base flat fields, the base value of that key.
C6_BaseFieldsAsClaimed ==
    \A n \in 1..oidx :
        \A k \in 1..ExpectedRows(orders_in[n]) :
            \A key \in DOMAIN BaseFields(orders_in[n]) :
                /\ key \in DOMAIN RowOf(n, k)
                /\ RowOf(n, k)[key] = BaseFields(orders_in[n])[key]

ItemFieldsNull(row) ==
    /\ row[ItemIdKey] = NoneV
    /\ row[ItemTitleKey] = NoneV
    /\ row[ItemQuantityKey] = NoneV
    /\ row[ItemPriceKey] = NoneV

ItemFieldsCopied(row, item) ==
    /\ row[ItemIdKey] = DictGet(item, <<"id">>, NoneV)
    /\ row[ItemTitleKey] = DictGet(item, <<"title">>, NoneV)
    /\ row[ItemQuantityKey] = DictGet(item, <<"quantity">>, NoneV)
    /\ row[ItemPriceKey] = DictGet(item, <<"price">>, NoneV)

\* the k-th row of a group of rows emitted for the list items
ItemFieldsRight(row, items, k) ==
    IF Len(items) = 0 THEN ItemFieldsNull(row) ELSE ItemFieldsCopied(row, items[k].val)

\* C10: the rows of an order's own line items have item_type 'order' and null
\* fulfillment_id and fulfillment_status; the rows of a fulfillment have item_type
\* 'fulfillment' and that fulfillment's id and status; the item fields are null for an
\* empty list and copied from the line item otherwise.
C10_ItemAndFulfillmentFields ==
    \A n \in 1..oidx :
        LET order == orders_in[n]
        IN  /\ \A k \in 1..Max(Len(ItemsOf(order)), 1) :
                   /\ RowOf(n, k)[ItemTypeKey] = StrV(<<"order">>)
                   /\ RowOf(n, k)[FulfillmentIdKey] = NoneV
                   /\ RowOf(n, k)[FulfillmentStatusKey] = NoneV
                   /\ ItemFieldsRight(RowOf(n, k), ItemsOf(order), k)
            /\ \A m \in 1..Len(FulfillmentsOf(order)) :
                   LET fulfillment == FulfillmentsOf(order)[m].val
                       first == Max(Len(ItemsOf(order)), 1) + FulfillmentRowCount(order, m - 1)
                   IN  \A k \in 1..Max(Len(ItemsOf(fulfillment)), 1) :
                           /\ RowOf(n, first + k)[ItemTypeKey] = StrV(<<"fulfillment">>)
                           /\ RowOf(n, first + k)[FulfillmentIdKey] = DictGet(fulfillment, <<"id">>, NoneV)
                           /\ RowOf(n, first + k)[FulfillmentStatusKey]
                                  = DictGet(fulfillment, <<"status">>, NoneV)
                           /\ ItemFieldsRight(RowOf(n, first + k), ItemsOf(fulfillment), k)

\* an order with no line items and no fulfillments has yielded its single row, and
\* an order with line items and a fulfillment that has line items has been expanded
C10_Witness ==
    /\ opc = "done"
    /\ Len(orders_in) = 2
    /\ ItemsOf(orders_in[1]) = <<>>
    /\ FulfillmentsOf(orders_in[1]) = <<>>
    /\ processed_orders[1][ItemTypeKey] = StrV(<<"order">>)
    /\ ItemFieldsNull(processed_orders[1])
    /\ Len(ItemsOf(orders_in[2])) = 2
    /\ Len(FulfillmentsOf(orders_in[2])) = 2
    /\ Len(ItemsOf(FulfillmentsOf(orders_in[2])[2].val)) = 2
    /\ processed_orders[Len(processed_orders)][FulfillmentIdKey] = IntV(7)
    /\ processed_orders[Len(processed_orders)][ItemIdKey] = IntV(2)

----------------------------------------------------------------------------
(* One run of http_trigger *)

Init == RInit /\ FIdle /\ OIdle

Next ==
    \/ NextStore
    \/ RequestCustomers
    \/ RequestOrders
    \/ ProcessCustomers
    \/ ProcessOrders
    \/ Reconcile
    \/ UploadCustomersAll
    \/ UploadOrdersAll
    \/ HttpRespond

Spec == Init /\ [][Next]_vars

----------------------------------------------------------------------------
(* Properties of the run *)

Published(tab) == \E k \in 1..Len(events) : events[k] = <<"upload", tab>>

CombinedTab == "Combined_Customers_Orders"

FinalTabs == {CombinedTab, "Customers_all", "Orders_all"}

\* C2, as stated: the published join has exactly as many rows as there are
\* accumulated order rows.  Customer rows sharing an id multiply the order rows
\* they match.
C2_JoinKeepsCardinality ==
    Published(CombinedTab) => sheets[CombinedTab].nrows = Len(all_orders)

TransportErrors == {"HTTPError", "APIError"}

SchemaErrors ==
    {"KeyError: 'id' column is missing in customer data",
     "KeyError: 'customer_id' column is missing in orders data",
     "KeyError: One or both of the required columns are missing for merging",
     "KeyError: not in index"}

SkipOutcomes(i) ==
    {<<"missing_credentials", Stores[i]>>, <<"no_customer_data", Stores[i]>>,
     <<"no_orders_data", Stores[i]>>}

\* every store was skipped for its credentials or returned an empty list
EveryStoreSkippedOrEmpty ==
    \A i \in 1..Len(Stores) : \E k \in 1..Len(results) : results[k] \in SkipOutcomes(i)

\* C3, as stated: a run without transport error or schema mismatch in which
\* every store lacks credentials or returns an empty customer or order list is
\* answered with status 200.  The run fails when an accumulator stayed empty.
C3_EmptyRunsSucceed ==
    (/\ pc = "responded"
     /\ EveryStoreSkippedOrEmpty
     /\ error \notin TransportErrors \cup SchemaErrors)
        => response.status = 200

\* C4, as stated: a run answered with a failure status has published none of
\* Combined_Customers_Orders, Customers_all and Orders_all.  The join is
\* published before the two unions are attempted.
C4_NoPartialCommit ==
    (pc = "responded" /\ response.status = 500)
        => \A tab \in FinalTabs : ~Published(tab)

JoinKeysPresent ==
    /\ CustomersIdColumn \in df_all_customers.cols
    /\ OrdersCustomerGidColumn \in df_all_orders.cols

SchemaMismatch == ~JoinKeysPresent \/ ~(RequiredColumnSet \subseteq df_merged.cols)

\* C5: a run whose accumulated tables lack a join key, or whose joined table
\* lacks an allow-listed column, is answered with a failure status and has not
\* published Combined_Customers_Orders; whenever that tab is published, its
\* columns are exactly the allow-list and there was no such mismatch.
C5_SchemaMismatchFatal ==
    /\ (pc = "responded" /\ SchemaMismatch)
           => (response.status = 500 /\ ~Published(CombinedTab))
    /\ Published(CombinedTab)
           => (sheets[CombinedTab].cols = RequiredColumnSet /\ ~SchemaMismatch)

\* the join is published although the joined table had columns off the allow-list
C5_Witness ==
    /\ pc = "responded"
    /\ Published(CombinedTab)
    /\ sheets[CombinedTab].cols = RequiredColumnSet
    /\ df_merged.cols # RequiredColumnSet

\* C9, as stated: after a response other than 200 from a source the run is
\* over: no further request is issued.  A status below 400 other than 200
\* leaves the fetch loop running, and the same request is issued again.
C9_NonSuccessAborts ==
    (last_status # 0 /\ last_status # StatusOk) => pc \in {"raised", "responded"}

StoreEventKinds == {"fetch_customers", "fetch_orders", "append_customers", "append_orders"}

\* the store an event belongs to, 0 for an event of no store
StoreOfEvent(e) ==
    IF e[1] \in StoreEventKinds
    THEN CHOOSE i \in 1..Len(Stores) : Stores[i] = e[2]
    ELSE IF \E i \in 1..Len(Stores) : e[2] \in {TabCustomers[i], TabOrders[i]}
    THEN CHOOSE i \in 1..Len(Stores) : e[2] \in {TabCustomers[i], TabOrders[i]}
    ELSE 0

\* the place of an event in its store's sequence: fetch customers, fetch
\* orders, publish customers tab, append customers, publish orders tab, append
\* orders
StepOfEvent(e) ==
    CASE e[1] = "fetch_customers" -> 1
      [] e[1] = "fetch_orders" -> 2
      [] e[1] = "append_customers" -> 4
      [] e[1] = "append_orders" -> 6
      [] OTHER -> IF e[2] = TabCustomers[StoreOfEvent(e)] THEN 3 ELSE 5

IsFinalEvent(e) == e[2] \in FinalTabs

\* e comes before f in the order the claim gives
Precedes(e, f) ==
    IF IsFinalEvent(e)
    THEN IsFinalEvent(f)
    ELSE \/ IsFinalEvent(f)
         \/ StoreOfEvent(e) < StoreOfEvent(f)
         \/ StoreOfEvent(e) = StoreOfEvent(f) /\ StepOfEvent(e) < StepOfEvent(f)

\* the store whose tag a row carries
StoreOfRow(row) == CHOOSE i \in 1..Len(Stores) : row[ShopNameKey] = StrV(ShopNameOf[i])

GroupedByStore(acc) ==
    \A i, j \in 1..Len(acc) : i < j => StoreOfRow(acc[i]) <= StoreOfRow(acc[j])

\* the rows store i put in the accumulator
RowsOfStore(acc, i) == Len(SelectSeq(acc, LAMBDA row : StoreOfRow(row) = i))

Happened(kind, name) == \E k \in 1..Len(events) : events[k] = <<kind, name>>

\* C11: the events of a run are in the order store by store, and within a store
\* fetch customers, fetch orders, publish customers tab, append customers,
\* publish orders tab, append orders; only stores with credentials have events,
\* and a store the loop has passed was fetched; the accumulators hold their rows
\* grouped in store order, a store's rows being there exactly when its append
\* happened; the three final tabs are published only after the last store.
C11_SequentialStores ==
    /\ \A i, j \in 1..Len(events) : i < j => Precedes(events[i], events[j])
    /\ \A k \in 1..Len(events) :
           ~IsFinalEvent(events[k]) =>
               /\ credentials[StoreOfEvent(events[k])]
               /\ StoreOfEvent(events[k]) <= store
    /\ \A i \in 1..Len(Stores) :
           /\ (credentials[i] /\ i < store) =>
                  (Happened("fetch_customers", Stores[i]) /\ Happened("fetch_orders", Stores[i]))
           /\ Happened("append_customers", Stores[i]) <=> RowsOfStore(all_customers, i) > 0
           /\ Happened("append_orders", Stores[i]) <=> RowsOfStore(all_orders, i) > 0
           /\ Happened("append_customers", Stores[i]) => Published(TabCustomers[i])
           /\ Happened("append_orders", Stores[i]) => Published(TabOrders[i])
    /\ GroupedByStore(all_customers)
    /\ GroupedByStore(all_orders)
    /\ \A k \in 1..Len(events) : IsFinalEvent(events[k]) => store > Len(Stores)

\* a finished run in which two stores put customers in the accumulator and the
\* three final tabs were published
C11_Witness ==
    /\ pc = "responded"
    /\ \E i, j \in 1..Len(Stores) :
           /\ i < j
           /\ RowsOfStore(all_customers, i) > 0
           /\ RowsOfStore(all_customers, j) > 0
    /\ \A tab \in FinalTabs : Published(tab)

====
